---- MODULE Spec2Model ----
(***************************************************************************)
(* wsdl-tsclient: the WSDL parser (parseWsdl / parseDefinition), the name  *)
(* registry of ParsedWsdl and the batch loop of the command line client,   *)
(* as a state machine.  Strings are TLA+ strings; the string functions of  *)
(* the source (split, join, substring, endsWith) are computed on them.     *)
(***************************************************************************)
EXTENDS Integers, Sequences, FiniteSets, TLC

(***************************************************************************)
(* Bounds of the exploration.                                              *)
(***************************************************************************)
MaxCalls == 2        \* message roles the walker resolves in one document
MaxDocs == 2         \* input documents of one batch run
MaxMethods == 1      \* methods of one document
MaxPorts == 1        \* ports without a method of one document

(***************************************************************************)
(* String helpers (JavaScript String.prototype methods used by the code).  *)
(***************************************************************************)
RECURSIVE SplitPopFrom(_, _, _)
SplitPopFrom(s, sep, acc) ==
    IF Len(s) = 0 THEN acc
    ELSE IF SubSeq(s, 1, 1) = sep
         THEN SplitPopFrom(SubSeq(s, 2, Len(s)), sep, "")
         ELSE SplitPopFrom(SubSeq(s, 2, Len(s)), sep, acc \o SubSeq(s, 1, 1))

\* s.split(sep).pop() : the text after the last separator
SplitPop(s, sep) == SplitPopFrom(s, sep, "")

RECURSIVE IndexOfFrom(_, _, _)
IndexOfFrom(s, sep, i) ==
    IF i > Len(s) THEN 0
    ELSE IF SubSeq(s, i, i) = sep THEN i ELSE IndexOfFrom(s, sep, i + 1)

\* s.split(sep) : the sequence of the pieces between separators
RECURSIVE Split(_, _)
Split(s, sep) ==
    LET k == IndexOfFrom(s, sep, 1)
    IN  IF k = 0 THEN <<s>>
        ELSE <<SubSeq(s, 1, k - 1)>> \o Split(SubSeq(s, k + 1, Len(s)), sep)

\* arr.join(sep)
RECURSIVE Join(_, _)
Join(arr, sep) ==
    IF Len(arr) = 0 THEN ""
    ELSE IF Len(arr) = 1 THEN arr[1]
    ELSE arr[1] \o sep \o Join(Tail(arr), sep)

\* s.endsWith(t)
EndsWith(s, t) == Len(s) >= Len(t) /\ SubSeq(s, Len(s) - Len(t) + 1, Len(s)) = t

\* s.includes(t)
Includes(s, t) ==
    \E i \in 1..(Len(s) - Len(t) + 1) : SubSeq(s, i, i + Len(t) - 1) = t

Digit(d) == CASE d = 0 -> "0" [] d = 1 -> "1" [] d = 2 -> "2" [] d = 3 -> "3"
              [] d = 4 -> "4" [] d = 5 -> "5" [] d = 6 -> "6" [] d = 7 -> "7"
              [] d = 8 -> "8" [] d = 9 -> "9"

\* `${n}` for a natural number
RECURSIVE NumStr(_)
NumStr(n) == IF n < 10 THEN Digit(n) ELSE NumStr(n \div 10) \o Digit(n % 10)

UpperChar(c) ==
    CASE c = "a" -> "A" [] c = "b" -> "B" [] c = "c" -> "C" [] c = "d" -> "D"
      [] c = "e" -> "E" [] c = "f" -> "F" [] c = "g" -> "G" [] c = "h" -> "H"
      [] c = "i" -> "I" [] c = "j" -> "J" [] c = "k" -> "K" [] c = "l" -> "L"
      [] c = "m" -> "M" [] c = "n" -> "N" [] c = "o" -> "O" [] c = "p" -> "P"
      [] c = "q" -> "Q" [] c = "r" -> "R" [] c = "s" -> "S" [] c = "t" -> "T"
      [] c = "u" -> "U" [] c = "v" -> "V" [] c = "w" -> "W" [] c = "x" -> "X"
      [] c = "y" -> "Y" [] c = "z" -> "Z" [] OTHER -> c

LowerChar(c) ==
    CASE c = "A" -> "a" [] c = "B" -> "b" [] c = "C" -> "c" [] c = "D" -> "d"
      [] c = "E" -> "e" [] c = "F" -> "f" [] c = "G" -> "g" [] c = "H" -> "h"
      [] c = "I" -> "i" [] c = "J" -> "j" [] c = "K" -> "k" [] c = "L" -> "l"
      [] c = "M" -> "m" [] c = "N" -> "n" [] c = "O" -> "o" [] c = "P" -> "p"
      [] c = "Q" -> "q" [] c = "R" -> "r" [] c = "S" -> "s" [] c = "T" -> "t"
      [] c = "U" -> "u" [] c = "V" -> "v" [] c = "W" -> "w" [] c = "X" -> "x"
      [] c = "Y" -> "y" [] c = "Z" -> "z" [] OTHER -> c

\* camelcase(name) and camelcase(name, { pascalCase: true }) of the camelcase
\* package, on a single word: the first letter is lowered, or raised
camelcase(s, pascalCase) ==
    IF Len(s) = 0 THEN s
    ELSE (IF pascalCase THEN UpperChar(SubSeq(s, 1, 1)) ELSE LowerChar(SubSeq(s, 1, 1)))
         \o SubSeq(s, 2, Len(s))

\* changeCase(name, { pascalCase: true }) on an identifier without separators
PascalCase(s) == IF Len(s) = 0 THEN s ELSE UpperChar(SubSeq(s, 1, 1)) \o SubSeq(s, 2, Len(s))

(***************************************************************************)
(* getType: the primitive type table.  The table is an object literal, so  *)
(* a key that names a member of Object.prototype finds that member.        *)
(***************************************************************************)
ObjectPrototypeKeys ==
    {"constructor", "toString", "valueOf", "hasOwnProperty", "isPrototypeOf",
     "propertyIsEnumerable", "toLocaleString", "__proto__"}

TypeTable(key) ==
    CASE key \in {"int", "integer", "short", "long", "double", "float", "decimal"} -> "number"
      [] key \in {"bool", "boolean"} -> "boolean"
      [] key \in {"dateTime", "date"} -> "Date"
      [] key = "anyType" -> "any"
      [] key \in ObjectPrototypeKeys -> "[inherited " \o key \o "]"
      [] OTHER -> "undefined"

getType(type) ==
    LET found == TypeTable(SplitPop(type, ":"))
    IN  IF found = "undefined" THEN "string" ELSE found

(***************************************************************************)
(* Raw values handed over by the schema decoder.  A value is a string, an  *)
(* opaque ComplexTypeElement, a mapping node (known by its identity id),   *)
(* null or undefined.                                                      *)
(***************************************************************************)
StrV(s) == [t |-> "str", s |-> s, id |-> 0]
ComplexV(n) == [t |-> "complex", s |-> n, id |-> 0]
NodeV(n) == [t |-> "node", s |-> "", id |-> n]
NullV == [t |-> "null", s |-> "", id |-> 0]
UndefV == [t |-> "undef", s |-> "", id |-> 0]

E(k, v) == [key |-> k, val |-> v]

\* The raw mapping nodes of the decoded schema, in Object.entries order.
RawNodes ==
    <<  \* 1: a structure that contains itself
        << E("parent", NodeV(1)), E("id", StrV("xs:int")) >>,
        \* 2, 3: a chain Ping -> Pong -> Ping
        << E("pong", NodeV(3)) >>,
        << E("ping[]", NodeV(2)) >>,
        \* 4: a shared sub-structure with an explicit type name
        << E("typeName", StrV("Address")), E("zip", StrV("xs:string")) >>,
        \* 5: two properties (one array-marked) holding the same sub-structure, and a
        \*    key present both with and without the array marker
        << E("home", NodeV(4)), E("work[]", NodeV(4)), E("tags[]", StrV("xs:string")),
           E("tags", StrV("xs:string")) >>,
        \* 6, 7: two more structures proposing the name Address
        << E("street", StrV("xs:string")) >>,
        << E("typeName", StrV("Address")), E("targetNSAlias", StrV("tns")) >>,
        \* 8: three colliding proposals below one parent
        << E("address", NodeV(6)), E("billing", NodeV(7)), E("ship[]", NodeV(4)) >>,
        \* 9: the same, one level deeper
        << E("order", NodeV(8)), E("blob", ComplexV("Blob")), E("blobs[]", ComplexV("Blob")) >>,
        \* 10: a property whose value is null
        << E("note", NullV) >>,
        \* 11: the decoder quirk, a key "undefined" with an undefined value
        << E("undefined", UndefV), E("a", StrV("xs:int")), E("sub", NodeV(6)),
           E("targetNamespace", StrV("urn:x")) >>,
        \* 12: the input of Calc.Add
        << E("a", StrV("xs:int")), E("b", StrV("xs:int")) >>,
        \* 13: a structure that holds the decoder quirk one level down
        << E("inner", NodeV(11)), E("n", StrV("xs:int")) >>
    >>

NodeIds == 1..Len(RawNodes)

\* Object.entries(defParts) of a value
EntriesOf(v) == IF v.t = "node" THEN RawNodes[v.id] ELSE << >>

\* "key" in obj
HasKey(v, k) == \E i \in 1..Len(EntriesOf(v)) : EntriesOf(v)[i].key = k

\* obj[key] (undefined when the key is absent)
Lookup(v, k) ==
    IF HasKey(v, k)
    THEN LET i == CHOOSE j \in 1..Len(EntriesOf(v)) : EntriesOf(v)[j].key = k
         IN  EntriesOf(v)[i].val
    ELSE UndefV

\* the truthiness test `if (defParts)`
Truthy(v) == v.t \in {"node", "complex"} \/ (v.t = "str" /\ v.s # "")

\* typeof v === "string"
IsString(v) == v.t = "str"

\* type.typeName ?? fallback, for a value that is an object
TypeNameOr(v, fallback) ==
    LET tn == Lookup(v, "typeName")
    IN  IF tn.t \in {"null", "undef"} THEN fallback ELSE tn.s

(***************************************************************************)
(* wsdl.definitions.messages: each message has an optional element         *)
(* {$name, $type} and its parts.  hasType = FALSE is an undefined $type.   *)
(***************************************************************************)
Msg(n, he, en, ht, et, p) ==
    [name |-> n, hasElement |-> he, elName |-> en, hasType |-> ht, elType |-> et, parts |-> p]

Messages ==
    <<  Msg("TreeIn", TRUE, "tree", TRUE, "tns:tree", NodeV(1)),
        Msg("pingIn", TRUE, "ping", FALSE, "", NodeV(2)),
        Msg("pongIn", TRUE, "pong", FALSE, "", NodeV(3)),
        Msg("PersonIn", TRUE, "Person", FALSE, "", NodeV(5)),
        Msg("AddressIn", TRUE, "addr", TRUE, "tns:Address", NodeV(4)),
        Msg("OrderIn", TRUE, "Order", FALSE, "", NodeV(8)),
        Msg("CartIn", FALSE, "", FALSE, "", NodeV(9)),
        Msg("NoteIn", TRUE, "Note", FALSE, "", NodeV(10)),
        Msg("QuirkIn", TRUE, "Quirk", FALSE, "", NodeV(11)),
        Msg("Sum", TRUE, "Sum", TRUE, "xs:int", StrV("Sum|xs:int")),
        Msg("Bare", TRUE, "Bare", FALSE, "", StrV("xs:int")),
        Msg("Empty", FALSE, "", FALSE, "", UndefV),
        Msg("AddIn", TRUE, "Add", FALSE, "", NodeV(12)),
        Msg("WrapIn", TRUE, "Wrap", FALSE, "", NodeV(13))
    >>

MsgIds == 1..Len(Messages)

\* the message of a name
MsgId(name) == CHOOSE i \in MsgIds : Messages[i].name = name

Roles == {"inputHeader", "input", "outputHeader", "output", "fault"}

\* the place of a role in the order the walker goes through a method
RoleIdx(role) ==
    CASE role = "inputHeader" -> 1 [] role = "input" -> 2 [] role = "outputHeader" -> 3
      [] role = "output" -> 4 [] role = "fault" -> 5

(***************************************************************************)
(* Options of one run.  maxStack is the ceiling handed to ParsedWsdl.      *)
(***************************************************************************)
DefaultMaxStack == 64

OptionChoices ==
    { [modelNamePreffix |-> "", modelNameSuffix |-> "", maxStack |-> DefaultMaxStack],
      [modelNamePreffix |-> "", modelNameSuffix |-> "", maxStack |-> 1],
      [modelNamePreffix |-> "I", modelNameSuffix |-> "", maxStack |-> DefaultMaxStack],
      [modelNamePreffix |-> "", modelNameSuffix |-> "Dto", maxStack |-> 1] }

VARIABLES
    options,        \* the merged parser options of the run
    definitions,    \* parsedWsdl.definitions; a Definition is known by its index
    visitedDefs,    \* visitedDefinitions: <<name, parts, definition>> records
    frames,         \* the activations of parseDefinition, innermost last
    err,            \* the exception in flight, or NoError
    pc,             \* "open", "walk", "parse", "throw", "generate", "exit"
    roleLog,        \* the message roles the walker has resolved in this document
    entered,        \* raw nodes parseDefinition was entered for in the current role, in order
    origin,         \* where the exception in flight was first raised
    docIdx,         \* index of the document the batch loop is at
    errorsCount,    \* errorsCount of the batch loop
    exitCode,       \* -1 while the process runs, else the exit status
    walked,         \* how many entries of roleLog belong to methods already pushed
    portMethods,    \* portMethods of the port the walker is in
    allMethods,     \* allMethods
    servicePorts,   \* servicePorts of the service the walker is in
    allPorts,       \* allPorts
    services,       \* services
    root,           \* the ParsedWsdl the promise resolved with
    genOptions,     \* the merged options of generate
    resolved,       \* parsedWsdl.definitions as they were when generate was called
    genAt,          \* where the loops of generate are: service, port, method, role
    genFrames,      \* the activations of generateDefinitionFile, innermost last
    allDefinitions, \* allDefinitions of generate: the Definitions with a file
    clientImports,  \* clientImports of generate
    portImports,    \* portImports of the port generate is in
    genAllMethods,  \* allMethods of generate
    genServicePorts, \* servicePorts of the service generate is in
    serviceFiles,   \* the service files saved: name and properties
    clientFile,     \* the client file saved: imports and methods
    argument,       \* the argument of a function applied on its own
    result,         \* its result
    argv,           \* conf, the command line: the patterns and whether -o was given
    localMatches,   \* how many files the local patterns matched
    cliLog          \* what became of each input document of the run

walkVars == <<walked, portMethods, allMethods, servicePorts, allPorts, services, root>>
genFiles == <<clientImports, portImports, genAllMethods, genServicePorts, serviceFiles,
             clientFile>>
genVars == <<genOptions, resolved, genAt, genFrames, allDefinitions, genFiles>>
funVars == <<argument, result>>
cliVars == <<argv, localMatches, cliLog>>
otherVars == <<genVars, funVars, cliVars>>

vars == <<options, definitions, visitedDefs, frames, err, pc, roleLog, entered, origin,
          docIdx, errorsCount, exitCode, walkVars, genVars, funVars, cliVars>>

sessionVars == <<definitions, visitedDefs, frames, err, roleLog, entered, origin>>
batchVars == <<docIdx, errorsCount, exitCode>>

NoError == [message |-> "", stack |-> << >>]
NoOrigin == [path |-> "", base |-> "", depth |-> 0, kind |-> ""]
NoRoot == [resolved |-> FALSE]

\* new Error(message): e.stack starts with the message of e itself
NewError(m) == [message |-> m, stack |-> <<m>>]

(***************************************************************************)
(* ParsedWsdl: the name registry over parsedWsdl.definitions.              *)
(***************************************************************************)
DefNames(defs) == { defs[i].name : i \in 1..Len(defs) }

\* parsedWsdl.findDefinition(name): index of the first Definition so named, 0 if none
findDefinition(defs, name) ==
    IF name \in DefNames(defs)
    THEN CHOOSE i \in 1..Len(defs) :
            defs[i].name = name /\ \A j \in 1..(i - 1) : defs[j].name # name
    ELSE 0

\* the numeric suffix of retry i: Name2 after the first retry, Name3 after the second
Candidate(defName, i) == defName \o NumStr(i + 1)

\* the first retry i in from..maxStack whose candidate is free, 0 when there is none
RECURSIVE FirstFreeRetry(_, _, _, _)
FirstFreeRetry(names, defName, from, maxStack) ==
    IF from > maxStack THEN 0
    ELSE IF Candidate(defName, from) \notin names THEN from
    ELSE FirstFreeRetry(names, defName, from + 1, maxStack)

\* findNonCollisionDefinitionName throws when no retry within the ceiling is free
Exhausted(defs, defName, maxStack) ==
    /\ defName \in DefNames(defs)
    /\ FirstFreeRetry(DefNames(defs), defName, 1, maxStack) = 0

findNonCollisionDefinitionName(defs, defName, maxStack) ==
    IF defName \notin DefNames(defs) THEN defName
    ELSE Candidate(defName, FirstFreeRetry(DefNames(defs), defName, 1, maxStack))

(***************************************************************************)
(* parseDefinition.  A frame is one activation: its arguments, the index   *)
(* of the Definition it created and the index i of the entry of            *)
(* Object.entries(defParts) it is at.                                      *)
(***************************************************************************)
Frame(name, parts, stk, def, i) ==
    [name |-> name, parts |-> parts, stack |-> stk, def |-> def, i |-> i]

Primitive(name, sourceName, description, type, isArray) ==
    [kind |-> "PRIMITIVE", name |-> name, sourceName |-> sourceName,
     description |-> description, type |-> type, isArray |-> isArray, ref |-> 0]

\* a REFERENCE property without its Definition
ReferenceToNothing(name, sourceName, ref, isArray) ==
    [kind |-> "REFERENCE", name |-> name, sourceName |-> sourceName,
     description |-> "", type |-> "", isArray |-> isArray, ref |-> 0]

Reference(name, sourceName, ref, isArray) ==
    [kind |-> "REFERENCE", name |-> name, sourceName |-> sourceName,
     description |-> "", type |-> "", isArray |-> isArray, ref |-> ref]

\* a lookup that does not see the entry pushed last
findReferenceDefinitonSkipsLast(visited, definitionParts) ==
    IF \E i \in 1..(Len(visited) - 1) : visited[i].parts = definitionParts
    THEN CHOOSE i \in 1..(Len(visited) - 1) :
            /\ visited[i].parts = definitionParts
            /\ \A j \in 1..(i - 1) : visited[j].parts # definitionParts
    ELSE 0

\* visited.find((def) => def.parts === definitionParts): index in visited, 0 if none
findReferenceDefiniton(visited, definitionParts) ==
    IF \E i \in 1..Len(visited) : visited[i].parts = definitionParts
    THEN CHOOSE i \in 1..Len(visited) :
            /\ visited[i].parts = definitionParts
            /\ \A j \in 1..(i - 1) : visited[j].parts # definitionParts
    ELSE 0

\* a name built from the proposed name instead of the reserved one
FinalNameOfProposal(opts, defName, nonCollisionDefName) ==
    opts.modelNamePreffix \o PascalCase(defName) \o opts.modelNameSuffix

\* the name of a new Definition, from the PascalCase name proposed (defName)
\* and the name the registry reserved for it
FinalName(opts, defName, nonCollisionDefName) ==
    opts.modelNamePreffix \o PascalCase(nonCollisionDefName) \o opts.modelNameSuffix

PathOf(stk, name) == Join(stk, ".") \o "." \o name

\* the decoder quirk test: "undefined" in defParts && defParts.undefined === undefined
IsQuirk(parts) == HasKey(parts, "undefined") /\ Lookup(parts, "undefined").t = "undef"

\* every entry is visited, the quirk key too
FirstEntryOfAnyParts(parts) == 1

\* only the quirk key is passed over
FirstEntryAfterQuirkKey(parts) == IF IsQuirk(parts) THEN 2 ELSE 1

\* the first entry Object.entries(defParts).forEach goes to: the branch of the
\* decoder quirk is an `else if` before it, so no entry of such parts is visited
FirstEntry(parts) == IF IsQuirk(parts) THEN Len(EntriesOf(parts)) + 1 ELSE 1

TypeErrorSplit == "TypeError: Cannot read properties of undefined (reading 'split')"
TypeErrorTypeName == "TypeError: Cannot read properties of null (reading 'typeName')"

\* properties pushed although defParts is absent
InitialPropertiesOfAnyParts(parts, finalName) ==
    IF IsString(parts) /\ Len(Split(parts.s, "|")) >= 2
    THEN << Primitive(finalName, Split(parts.s, "|")[1], parts.s,
                      getType(Split(parts.s, "|")[2]), FALSE) >>
    ELSE IF Truthy(parts) THEN << >>
    ELSE << Primitive(finalName, "", "", "string", FALSE) >>

\* the properties a new Definition has before its entries are gone through:
\* one PRIMITIVE property for a string descriptor "name|type", none for a
\* mapping and none for absent parts (`if (defParts) ... else { Empty }`)
InitialProperties(parts, finalName) ==
    IF Truthy(parts) /\ IsString(parts) /\ Len(Split(parts.s, "|")) >= 2
    THEN << Primitive(finalName, Split(parts.s, "|")[1], parts.s,
                      getType(Split(parts.s, "|")[2]), FALSE) >>
    ELSE << >>

\* a cache entry that does not keep the raw parts
VisitedDefinitionWithoutParts(name, parts, definition) ==
    [name |-> name, parts |-> UndefV, definition |-> definition]

\* { name: definition.name, parts: defParts, definition }
VisitedDefinition(name, parts, definition) ==
    [name |-> name, parts |-> parts, definition |-> definition]

\* The call of parseDefinition(name, parts, stk) from below the frames `callers`:
\* the name reservation, the registration of the new Definition and the
\* branches that need no iteration.  `seen` lists the raw values entered so far
\* in the current top-level call.
Enter(name, parts, stk, callers, seen) ==
    LET defName == PascalCase(name)
        newParts == Split(parts.s, "|")
        nonCollisionDefName ==
            findNonCollisionDefinitionName(definitions, defName, options.maxStack)
        definition == [name |-> FinalName(options, defName, nonCollisionDefName),
                       sourceName |-> name,
                       docs |-> <<name>>,
                       properties |->
                           InitialProperties(parts,
                               FinalName(options, defName, nonCollisionDefName))]
        idx == Len(definitions) + 1
    IN  IF Exhausted(definitions, defName, options.maxStack)
        THEN /\ err' = NewError("Error for finding non-collision definition name for "
                                \o PathOf(stk, name))
             /\ origin' = [path |-> PathOf(stk, name), base |-> defName,
                           depth |-> Len(callers), kind |-> "exhausted"]
             /\ pc' = "throw"
             /\ frames' = callers
             /\ entered' = seen
             /\ UNCHANGED <<definitions, visitedDefs>>
        ELSE /\ definitions' = Append(definitions, definition)
             /\ visitedDefs' = Append(visitedDefs,
                    VisitedDefinition(definition.name, parts, idx))
             /\ entered' = Append(seen, parts)
             /\ IF Truthy(parts) /\ IsString(parts) /\ Len(newParts) < 2
                THEN \* getType(undefined) throws out of parseDefinition
                     /\ err' = NewError(TypeErrorSplit)
                     /\ origin' = [path |-> PathOf(stk, name), base |-> defName,
                                   depth |-> Len(callers), kind |-> "bareDescriptor"]
                     /\ pc' = "throw"
                     /\ frames' = callers
                ELSE /\ frames' = Append(callers,
                            Frame(name, parts, stk, idx, FirstEntry(parts)))
                     /\ pc' = "parse"
                     /\ UNCHANGED <<err, origin>>

Top == frames[Len(frames)]
Callers == SubSeq(frames, 1, Len(frames) - 1)

AddProperty(defs, d, prop) ==
    [defs EXCEPT ![d].properties = Append(@, prop)]

AddDoc(defs, d, doc) ==
    [defs EXCEPT ![d].docs = Append(@, doc)]

Advance(fs) == [fs EXCEPT ![Len(fs)].i = @ + 1]

IsArrayKey(propName) == EndsWith(propName, "[]")

\* a property name that keeps the marker
PublicNameKeepsMarker(propName) == propName

\* propName.substring(0, propName.length - 2) for an array-marked key
PublicName(propName) ==
    IF IsArrayKey(propName) THEN SubSeq(propName, 1, Len(propName) - 2) ELSE propName

SubdefinitionMessage(f, propName) ==
    IF IsArrayKey(propName)
    THEN "Error while parsing Subdefinition for '" \o PathOf(f.stack, f.name) \o "'"
    ELSE "Error while parsing Subdefinition for " \o PathOf(f.stack, f.name)

(***************************************************************************)
(* The state after construction: the command line client is about to open *)
(* its first document.                                                     *)
(***************************************************************************)
NoGenOptions == [emitDefinitionsOnly |-> FALSE, modelPropertyNaming |-> "null"]
NoCursor == [s |-> 0, p |-> 0, m |-> 0, r |-> 0]
NoFile == [saved |-> FALSE]

\* the lists generate declares are empty and no file is saved
NoFiles ==
    /\ clientImports = << >>
    /\ portImports = << >>
    /\ genAllMethods = << >>
    /\ genServicePorts = << >>
    /\ serviceFiles = << >>
    /\ clientFile = NoFile

\* generate has not been called
GenIdle ==
    /\ genOptions = NoGenOptions
    /\ resolved = << >>
    /\ genAt = NoCursor
    /\ genFrames = << >>
    /\ allDefinitions = << >>
    /\ NoFiles

NoArgument == [fn |-> "", token |-> "", supplied |-> FALSE, max |-> 0]
NoResult == [done |-> FALSE, type |-> "", defined |-> FALSE, maxStack |-> 0, merged |-> 0]

\* no function is applied on its own
FunIdle == argument = NoArgument /\ result = NoResult

NoConf == [patterns |-> << >>, o |-> FALSE]

\* the main function of the command line client is not followed
CliIdle == argv = NoConf /\ localMatches = 0 /\ cliLog = << >>

\* the parser before the first document is opened
ParserInit ==
    /\ definitions = << >>
    /\ visitedDefs = << >>
    /\ frames = << >>
    /\ err = NoError
    /\ pc = "open"
    /\ roleLog = << >>
    /\ entered = << >>
    /\ origin = NoOrigin
    /\ docIdx = 1
    /\ errorsCount = 0
    /\ exitCode = -1
    /\ walked = 0
    /\ portMethods = << >>
    /\ allMethods = << >>
    /\ servicePorts = << >>
    /\ allPorts = << >>
    /\ services = << >>
    /\ root = NoRoot

Init ==
    /\ options \in OptionChoices
    /\ GenIdle
    /\ FunIdle
    /\ CliIdle
    /\ ParserInit

(***************************************************************************)
(* The walker of parseWsdl: one message role of one method.                *)
(***************************************************************************)
\* the element type name of a message (the four lines shared by all roles)
ElementTypeName(m) ==
    LET declared == IF m.hasType THEN m.elType ELSE m.elName
        typeName == SplitPop(declared, ":")
        simple == IsString(m.parts)
    IN  IF simple THEN m.elName ELSE typeName

\* does the walker look for / create a Definition for this role at all
RoleResolves(role, m) ==
    m.hasElement \/ role = "output" \/ Truthy(m.parts)

RoleName(role, m) == IF m.hasElement THEN ElementTypeName(m) ELSE m.name

LogEntry(role, mi, name, def, reused) ==
    [role |-> role, msg |-> mi, name |-> name, def |-> def, reused |-> reused]

\* the entries of roleLog made for the method the walker is in
CurrentEntries == (walked + 1)..Len(roleLog)

\* the walker goes through the roles of a method in one order, each once
RoleIsNext(role) == \A a \in CurrentEntries : RoleIdx(roleLog[a].role) < RoleIdx(role)

\* a header is looked at only inside `if (method.input)` / `if (method.output)`
HeaderOf(role) ==
    CASE role = "input" -> "inputHeader" [] role = "output" -> "outputHeader" [] OTHER -> ""

HeaderWalked(role) == \E a \in CurrentEntries : roleLog[a].role = HeaderOf(role)

Pending == -1

\* a role whose message exists
WalkRole(role, mi) ==
    LET m == Messages[mi]
        name == RoleName(role, m)
        type == findDefinition(definitions, name)
    IN  /\ pc = "walk"
        /\ Len(roleLog) < MaxCalls
        /\ Len(allMethods) < MaxMethods
        /\ RoleIsNext(role)
        /\ UNCHANGED <<options, otherVars, walkVars, batchVars>>
        /\ IF ~RoleResolves(role, m)
           THEN /\ roleLog' = Append(roleLog, LogEntry(role, mi, "", 0, FALSE))
                /\ entered' = << >>
                /\ UNCHANGED <<definitions, visitedDefs, frames, err, pc, origin>>
           ELSE IF type # 0
           THEN /\ roleLog' = Append(roleLog, LogEntry(role, mi, name, type, TRUE))
                /\ entered' = << >>
                /\ UNCHANGED <<definitions, visitedDefs, frames, err, pc, origin>>
           ELSE /\ roleLog' = Append(roleLog, LogEntry(role, mi, name, Pending, FALSE))
                /\ Enter(name, m.parts, <<name>>, << >>, << >>)

\* a role the method has no message for: its Definition stays null
WalkAbsent(role) ==
    /\ pc = "walk"
    /\ Len(roleLog) < MaxCalls
    /\ Len(allMethods) < MaxMethods
    /\ RoleIsNext(role)
    /\ ~HeaderWalked(role)
    /\ roleLog' = Append(roleLog, LogEntry(role, 0, "", 0, FALSE))
    /\ entered' = << >>
    /\ UNCHANGED <<options, otherVars, walkVars, batchVars, definitions, visitedDefs, frames, err, pc, origin>>

(***************************************************************************)
(* parseDefinition: one entry of Object.entries(defParts).forEach.         *)
(***************************************************************************)
AtEntry == pc = "parse" /\ frames # << >> /\ Top.i <= Len(EntriesOf(Top.parts))
Entry == EntriesOf(Top.parts)[Top.i]

IsDocKey(k) == k \in {"targetNSAlias", "typeName", "targetNamespace"}

\* targetNSAlias, targetNamespace: a documentation line (the back quotes around
\* the value are left out: they cannot be written in a string here); typeName: skipped
ParseDocKey ==
    /\ AtEntry
    /\ IsDocKey(Entry.key)
    /\ definitions' =
          IF Entry.key = "typeName" THEN definitions
          ELSE AddDoc(definitions, Top.def, "@" \o Entry.key \o " " \o Entry.val.s)
    /\ frames' = Advance(frames)
    /\ UNCHANGED <<options, otherVars, walkVars, batchVars, visitedDefs, err, pc, roleLog, entered, origin>>

\* typeof type === "string"
ParsePrimitive ==
    /\ AtEntry
    /\ ~IsDocKey(Entry.key)
    /\ IsString(Entry.val)
    /\ definitions' = AddProperty(definitions, Top.def,
          Primitive(PublicName(Entry.key), Entry.key, Entry.val.s,
                    getType(Entry.val.s), IsArrayKey(Entry.key)))
    /\ frames' = Advance(frames)
    /\ UNCHANGED <<options, otherVars, walkVars, batchVars, visitedDefs, err, pc, roleLog, entered, origin>>

\* type instanceof ComplexTypeElement
ParseComplex ==
    /\ AtEntry
    /\ ~IsDocKey(Entry.key)
    /\ Entry.val.t = "complex"
    /\ definitions' = AddProperty(definitions, Top.def,
          Primitive(PublicName(Entry.key), Entry.key,
                    Entry.val.s \o " - ComplexType are not supported yet",
                    "any", IsArrayKey(Entry.key)))
    /\ frames' = Advance(frames)
    /\ UNCHANGED <<options, otherVars, walkVars, batchVars, visitedDefs, err, pc, roleLog, entered, origin>>

\* a sub-structure found in visitedDefs: a REFERENCE to the cached Definition
ParseCached ==
    /\ AtEntry
    /\ ~IsDocKey(Entry.key)
    /\ Entry.val.t = "node"
    /\ findReferenceDefiniton(visitedDefs, Entry.val) # 0
    /\ LET visited == visitedDefs[findReferenceDefiniton(visitedDefs, Entry.val)]
       IN  definitions' = AddProperty(definitions, Top.def,
              Reference(PublicName(Entry.key),
                        TypeNameOr(Entry.val, PublicName(Entry.key)),
                        visited.definition, IsArrayKey(Entry.key)))
    /\ frames' = Advance(frames)
    /\ UNCHANGED <<options, otherVars, walkVars, batchVars, visitedDefs, err, pc, roleLog, entered, origin>>

\* a sub-structure not yet visited: the recursive call
ParseRecurse ==
    /\ AtEntry
    /\ ~IsDocKey(Entry.key)
    /\ Entry.val.t = "node"
    /\ findReferenceDefiniton(visitedDefs, Entry.val) = 0
    /\ Enter(TypeNameOr(Entry.val, PublicName(Entry.key)), Entry.val,
             Append(Top.stack, Entry.key), frames, entered)
    /\ UNCHANGED <<options, otherVars, walkVars, batchVars, roleLog>>

\* a null or undefined value: neither a string nor a ComplexTypeElement, so the
\* code reads type.typeName of it.  Outside the try (cached branch) the
\* TypeError leaves the activation as it is; inside the try it is caught and
\* replaced by the Subdefinition error.
ParseNullValue ==
    /\ AtEntry
    /\ ~IsDocKey(Entry.key)
    /\ Entry.val.t \in {"null", "undef"}
    /\ err' = IF findReferenceDefiniton(visitedDefs, Entry.val) # 0
              THEN NewError(TypeErrorTypeName)
              ELSE NewError(SubdefinitionMessage(Top, Entry.key))
    /\ origin' = [path |-> PathOf(Top.stack, Top.name), base |-> Entry.key,
                  depth |-> Len(frames) - 1, kind |-> "nullValue"]
    /\ frames' = Callers
    /\ pc' = "throw"
    /\ UNCHANGED <<options, otherVars, walkVars, batchVars, definitions, visitedDefs, roleLog, entered>>

\* the recursive call returned: the caller pushes the REFERENCE property
ParseReturnToParent ==
    /\ pc = "parse"
    /\ Len(frames) >= 2
    /\ Top.i > Len(EntriesOf(Top.parts))
    /\ LET parent == frames[Len(frames) - 1]
           e == EntriesOf(parent.parts)[parent.i]
       IN  definitions' = AddProperty(definitions, parent.def,
              Reference(PublicName(e.key), TypeNameOr(e.val, PublicName(e.key)),
                        Top.def, IsArrayKey(e.key)))
    /\ frames' = Advance(Callers)
    /\ UNCHANGED <<options, otherVars, walkVars, batchVars, visitedDefs, err, pc, roleLog, entered, origin>>

\* the top-level call returned: the walker holds the Definition for the role
ParseReturnToWalker ==
    /\ pc = "parse"
    /\ Len(frames) = 1
    /\ Top.i > Len(EntriesOf(Top.parts))
    /\ roleLog' = [roleLog EXCEPT ![Len(roleLog)].def = Top.def]
    /\ frames' = << >>
    /\ pc' = "walk"
    /\ UNCHANGED <<options, otherVars, walkVars, batchVars, definitions, visitedDefs, err, entered, origin>>

\* catch (err) of the caller of a failed recursive call: a new Error is thrown;
\* the statement that joins err.stack to e.stack has no effect (its value is dropped)
Unwind ==
    /\ pc = "throw"
    /\ frames # << >>
    /\ err' = NewError(SubdefinitionMessage(Top, Entry.key))
    /\ frames' = Callers
    /\ UNCHANGED <<options, otherVars, walkVars, batchVars, definitions, visitedDefs, pc, roleLog, entered, origin>>

(***************************************************************************)
(* The batch loop of the command line client and the promise of parseWsdl. *)
(***************************************************************************)
FreshSession ==
    /\ walked' = 0
    /\ portMethods' = << >>
    /\ allMethods' = << >>
    /\ servicePorts' = << >>
    /\ allPorts' = << >>
    /\ services' = << >>
    /\ root' = NoRoot
    /\ definitions' = << >>
    /\ visitedDefs' = << >>
    /\ frames' = << >>
    /\ err' = NoError
    /\ roleLog' = << >>
    /\ entered' = << >>
    /\ origin' = NoOrigin

\* open_wsdl calls back with the decoded document: a new ParsedWsdl and an
\* empty visitedDefinitions
OpenDoc ==
    /\ pc = "open"
    /\ docIdx <= MaxDocs
    /\ FreshSession
    /\ pc' = "walk"
    /\ UNCHANGED <<options, otherVars, batchVars>>

\* open_wsdl calls back with err: reject(err), caught by the loop and counted
OpenFail ==
    /\ pc = "open"
    /\ docIdx <= MaxDocs
    /\ FreshSession
    /\ errorsCount' = errorsCount + 1
    /\ docIdx' = docIdx + 1
    /\ UNCHANGED <<options, otherVars, pc, exitCode>>

\* the names of the k-th method, port and service of a document
MethodName(k) == IF k = 1 THEN "Add" ELSE "Add" \o NumStr(k)
PortName(k) == IF k = 1 THEN "calcPort" ELSE "calcPort" \o NumStr(k)
ServiceName(k) == IF k = 1 THEN "calc" ELSE "calc" \o NumStr(k)

\* the Definition the walker holds for a role of the method it is in (0 is null)
HeldFor(role) ==
    IF \E a \in CurrentEntries : roleLog[a].role = role
    THEN roleLog[CHOOSE a \in CurrentEntries : roleLog[a].role = role].def
    ELSE 0

\* portMethod (paramName, which no Definition depends on, is left out)
PortMethod ==
    [name |-> MethodName(Len(allMethods) + 1),
     paramDefinition |-> HeldFor("input"),
     returnDefinition |-> HeldFor("output"),
     inputHeaderDefinition |-> HeldFor("inputHeader"),
     outputHeaderDefinition |-> HeldFor("outputHeader"),
     faultDefinition |-> HeldFor("fault")]

\* end of the body of the method loop: the Method is pushed to both lists
EndMethod ==
    /\ pc = "walk"
    /\ Len(allMethods) < MaxMethods
    /\ portMethods' = Append(portMethods, PortMethod)
    /\ allMethods' = Append(allMethods, PortMethod)
    /\ walked' = Len(roleLog)
    /\ UNCHANGED <<options, otherVars, sessionVars, batchVars, pc, servicePorts, allPorts, services, root>>

ServicePort ==
    [name |-> PascalCase(PortName(Len(allPorts) + 1)),
     sourceName |-> PortName(Len(allPorts) + 1),
     methods |-> portMethods]

\* end of the port cycle (a port of the model has at least one method)
EndPort ==
    /\ pc = "walk"
    /\ CurrentEntries = {}
    /\ portMethods # << >>
    /\ servicePorts' = Append(servicePorts, ServicePort)
    /\ allPorts' = Append(allPorts, ServicePort)
    /\ portMethods' = << >>
    /\ UNCHANGED <<options, otherVars, sessionVars, batchVars, pc, walked, allMethods, services, root>>

\* end of the service cycle (a service of the model has at least one port)
EndService ==
    /\ pc = "walk"
    /\ CurrentEntries = {}
    /\ portMethods = << >>
    /\ servicePorts # << >>
    /\ services' = Append(services,
          [name |-> PascalCase(ServiceName(Len(services) + 1)),
           sourceName |-> ServiceName(Len(services) + 1),
           ports |-> servicePorts])
    /\ servicePorts' = << >>
    /\ UNCHANGED <<options, otherVars, sessionVars, batchVars, pc, walked, portMethods, allMethods,
                   allPorts, root>>

\* the walker has been through every service: parsedWsdl.services and
\* parsedWsdl.ports are set, resolve(parsedWsdl); the loop goes on to the next
\* document
FinishWalk ==
    /\ pc = "walk"
    /\ CurrentEntries = {}
    /\ portMethods = << >>
    /\ servicePorts = << >>
    /\ root' = [resolved |-> TRUE, services |-> services, ports |-> allPorts]
    /\ docIdx' = docIdx + 1
    /\ pc' = "open"
    /\ UNCHANGED <<options, otherVars, sessionVars, errorsCount, exitCode, walked, portMethods,
                   allMethods, servicePorts, allPorts, services>>

\* An exception leaves the callback that open_wsdl called.  The callback runs
\* after the promise executor has returned, so the promise is not rejected by
\* it and no handler of this program sees it: the process ends on the uncaught
\* exception.
EscapeUncaught ==
    /\ pc = "throw"
    /\ frames = << >>
    /\ pc' = "exit"
    /\ exitCode' = 1
    /\ UNCHANGED <<options, otherVars, walkVars, sessionVars, docIdx, errorsCount>>

\* The other outcome the decoder library may produce: it catches the exception
\* of its callback and calls back again with it, which rejects the promise;
\* the loop counts the failure and goes on.
EscapeRejected ==
    /\ pc = "throw"
    /\ frames = << >>
    /\ pc' = "open"
    /\ errorsCount' = errorsCount + 1
    /\ docIdx' = docIdx + 1
    /\ UNCHANGED <<options, otherVars, walkVars, sessionVars, exitCode>>

\* after the last document: exit status 1 when errors were counted
BatchEnd ==
    /\ pc = "open"
    /\ docIdx > MaxDocs
    /\ pc' = "exit"
    /\ exitCode' = IF errorsCount > 0 THEN 1 ELSE 0
    /\ UNCHANGED <<options, otherVars, walkVars, sessionVars, docIdx, errorsCount>>

Next ==
    \/ OpenDoc
    \/ OpenFail
    \/ \E role \in Roles, mi \in MsgIds : WalkRole(role, mi)
    \/ \E role \in Roles : WalkAbsent(role)
    \/ ParseDocKey
    \/ ParsePrimitive
    \/ ParseComplex
    \/ ParseCached
    \/ ParseRecurse
    \/ ParseNullValue
    \/ ParseReturnToParent
    \/ ParseReturnToWalker
    \/ Unwind
    \/ EndMethod
    \/ EndPort
    \/ EndService
    \/ FinishWalk
    \/ EscapeUncaught
    \/ EscapeRejected
    \/ BatchEnd

Spec == Init /\ [][Next]_vars

(***************************************************************************)
(* generate: the emission stage, called by the command line client with    *)
(* the ParsedWsdl of a document before it opens the next one.              *)
(***************************************************************************)
GenOptionChoices ==
    { [emitDefinitionsOnly |-> FALSE, modelPropertyNaming |-> "null"],
      [emitDefinitionsOnly |-> FALSE, modelPropertyNaming |-> "camelCase"],
      [emitDefinitionsOnly |-> FALSE, modelPropertyNaming |-> "PascalCase"],
      [emitDefinitionsOnly |-> TRUE, modelPropertyNaming |-> "null"] }

\* the order in which generate goes through the Definitions of a method
GenRoles == <<"paramDefinition", "returnDefinition", "inputHeaderDefinition",
              "outputHeaderDefinition", "faultDefinition">>

GenTop == genFrames[Len(genFrames)]
GenProp == definitions[GenTop.def].properties[GenTop.i]
GenPort == root.ports[genAt.p]
GenMethod == GenPort.methods[genAt.m]
GenDefinition == GenMethod[GenRoles[genAt.r]]

\* a test that finds no Definition generated
GeneratedNone(d) == FALSE

\* generated.includes(definition)
Generated(d) == \E i \in 1..Len(allDefinitions) : allDefinitions[i] = d

\* addSafeImport(imports, moduleSpecifier, namedImport)
addSafeImport(imports, moduleSpecifier, namedImport) ==
    IF \E i \in 1..Len(imports) : imports[i].moduleSpecifier = moduleSpecifier
    THEN imports
    ELSE Append(imports, [moduleSpecifier |-> moduleSpecifier, namedImport |-> namedImport])

\* generate has returned for the ParsedWsdl of this document
GenerateDone == pc = "open" /\ root.resolved /\ genAt.s > Len(root.services)

\* the call of generate: its local lists are empty, the loops are at their start
GenStart ==
    /\ pc = "open"
    /\ root.resolved
    /\ genAt = NoCursor
    /\ pc' = "generate"
    /\ resolved' = definitions
    /\ genAt' = [s |-> 1, p |-> 1, m |-> 1, r |-> 1]
    /\ genFrames' = << >>
    /\ allDefinitions' = << >>
    /\ clientImports' = << >>
    /\ portImports' = << >>
    /\ genAllMethods' = << >>
    /\ genServicePorts' = << >>
    /\ serviceFiles' = << >>
    /\ clientFile' = NoFile
    /\ UNCHANGED <<options, sessionVars, batchVars, walkVars, genOptions, funVars, cliVars>>

InMethod ==
    /\ pc = "generate"
    /\ genFrames = << >>
    /\ genAt.s <= Len(root.services)
    /\ genAt.p <= Len(root.ports)
    /\ genAt.m <= Len(GenPort.methods)
    /\ genAt.r <= Len(GenRoles)

\* a Definition of the method that is null, or has its file already
GenRoleSkip ==
    /\ InMethod
    /\ GenDefinition = 0 \/ Generated(GenDefinition)
    /\ genAt' = [genAt EXCEPT !.r = @ + 1]
    /\ portImports' =
          IF GenDefinition = 0 THEN portImports
          ELSE addSafeImport(portImports,
                             "../definitions/" \o definitions[GenDefinition].name,
                             definitions[GenDefinition].name)
    /\ UNCHANGED <<options, sessionVars, batchVars, walkVars, funVars, cliVars, pc, genOptions,
                   resolved, genFrames, allDefinitions, clientImports, genAllMethods,
                   genServicePorts, serviceFiles, clientFile>>

\* generateDefinitionFile is called for a Definition of the method
GenRoleDefinition ==
    /\ InMethod
    /\ GenDefinition # 0
    /\ ~Generated(GenDefinition)
    /\ allDefinitions' = Append(allDefinitions, GenDefinition)
    /\ genFrames' = << [def |-> GenDefinition, i |-> 1] >>
    /\ UNCHANGED <<options, sessionVars, batchVars, walkVars, funVars, cliVars, pc, genOptions,
                   resolved, genAt, genFiles>>

\* prop.name = camelcase(prop.name ...): the property of the ParsedWsdl is renamed
Renamed(name) ==
    CASE genOptions.modelPropertyNaming = "camelCase" -> camelcase(name, FALSE)
      [] genOptions.modelPropertyNaming = "PascalCase" -> camelcase(name, TRUE)
      [] OTHER -> name

RenameProp(defs) ==
    [defs EXCEPT ![GenTop.def].properties[GenTop.i].name = Renamed(@)]

AtProp == pc = "generate" /\ genFrames # << >>
              /\ GenTop.i <= Len(definitions[GenTop.def].properties)

GenAdvance(fs) == [fs EXCEPT ![Len(fs)].i = @ + 1]

\* a PRIMITIVE property
GenPrimitive ==
    /\ AtProp
    /\ GenProp.kind = "PRIMITIVE"
    /\ definitions' = RenameProp(definitions)
    /\ genFrames' = GenAdvance(genFrames)
    /\ UNCHANGED <<options, visitedDefs, frames, err, roleLog, entered, origin, batchVars,
                   walkVars, funVars, cliVars, pc, genOptions, resolved, genAt, allDefinitions,
                   genFiles>>

\* a REFERENCE property whose Definition has its file already
GenReference ==
    /\ AtProp
    /\ GenProp.kind = "REFERENCE"
    /\ Generated(GenProp.ref)
    /\ definitions' = RenameProp(definitions)
    /\ genFrames' = GenAdvance(genFrames)
    /\ UNCHANGED <<options, visitedDefs, frames, err, roleLog, entered, origin, batchVars,
                   walkVars, funVars, cliVars, pc, genOptions, resolved, genAt, allDefinitions,
                   genFiles>>

\* a REFERENCE property whose Definition was not generated yet: the recursive call
GenReferenceRecurse ==
    /\ AtProp
    /\ GenProp.kind = "REFERENCE"
    /\ ~Generated(GenProp.ref)
    /\ definitions' = RenameProp(definitions)
    /\ allDefinitions' = Append(allDefinitions, GenProp.ref)
    /\ genFrames' = Append(genFrames, [def |-> GenProp.ref, i |-> 1])
    /\ UNCHANGED <<options, visitedDefs, frames, err, roleLog, entered, origin, batchVars,
                   walkVars, funVars, cliVars, pc, genOptions, resolved, genAt, genFiles>>

\* generateDefinitionFile has been through the properties: the file is saved.
\* Back in generate the Definition is imported by the client and by the port.
GenReturn ==
    /\ pc = "generate"
    /\ genFrames # << >>
    /\ GenTop.i > Len(definitions[GenTop.def].properties)
    /\ IF Len(genFrames) > 1
       THEN /\ genFrames' = GenAdvance(SubSeq(genFrames, 1, Len(genFrames) - 1))
            /\ UNCHANGED <<genAt, clientImports, portImports>>
       ELSE /\ genFrames' = << >>
            /\ genAt' = [genAt EXCEPT !.r = @ + 1]
            /\ clientImports' =
                  addSafeImport(clientImports,
                                "./definitions/" \o definitions[GenTop.def].name,
                                definitions[GenTop.def].name)
            /\ portImports' =
                  addSafeImport(portImports,
                                "../definitions/" \o definitions[GenTop.def].name,
                                definitions[GenTop.def].name)
    /\ UNCHANGED <<options, sessionVars, batchVars, walkVars, funVars, cliVars, pc, genOptions,
                   resolved, allDefinitions, genAllMethods, genServicePorts, serviceFiles,
                   clientFile>>

\* end of the method loop body
GenEndMethod ==
    /\ pc = "generate"
    /\ genFrames = << >>
    /\ genAt.s <= Len(root.services)
    /\ genAt.p <= Len(root.ports)
    /\ genAt.m <= Len(GenPort.methods)
    /\ genAt.r > Len(GenRoles)
    /\ genAt' = [genAt EXCEPT !.m = @ + 1, !.r = 1]
    /\ genAllMethods' = Append(genAllMethods, GenMethod)
    /\ UNCHANGED <<options, sessionVars, batchVars, walkVars, funVars, cliVars, pc, genOptions,
                   resolved, genFrames, allDefinitions, clientImports, portImports,
                   genServicePorts, serviceFiles, clientFile>>

\* end of the port loop body: `for (const port of parsedWsdl.ports)`
GenEndPort ==
    /\ pc = "generate"
    /\ genAt.s <= Len(root.services)
    /\ genAt.p <= Len(root.ports)
    /\ genAt.m > Len(GenPort.methods)
    /\ genAt' = [genAt EXCEPT !.p = @ + 1, !.m = 1]
    /\ genServicePorts' =
          IF genOptions.emitDefinitionsOnly THEN genServicePorts
          ELSE Append(genServicePorts, GenPort.name)
    /\ portImports' = << >>
    /\ UNCHANGED <<options, sessionVars, batchVars, walkVars, funVars, cliVars, pc, genOptions,
                   resolved, genFrames, allDefinitions, clientImports, genAllMethods,
                   serviceFiles, clientFile>>

\* end of the service loop body
GenEndService ==
    /\ pc = "generate"
    /\ genAt.s <= Len(root.services)
    /\ genAt.p > Len(root.ports)
    /\ genAt' = [genAt EXCEPT !.s = @ + 1, !.p = 1]
    /\ IF genOptions.emitDefinitionsOnly
       THEN UNCHANGED <<clientImports, serviceFiles>>
       ELSE /\ clientImports' =
                  addSafeImport(clientImports,
                                "./services/" \o root.services[genAt.s].name,
                                root.services[genAt.s].name)
            /\ serviceFiles' = Append(serviceFiles,
                  [name |-> root.services[genAt.s].name, properties |-> genServicePorts])
    /\ genServicePorts' = << >>
    /\ UNCHANGED <<options, sessionVars, batchVars, walkVars, funVars, cliVars, pc, genOptions,
                   resolved, genFrames, allDefinitions, portImports, genAllMethods,
                   clientFile>>

\* the client and index files are written, generate returns
GenFinish ==
    /\ pc = "generate"
    /\ genAt.s > Len(root.services)
    /\ pc' = "open"
    /\ clientFile' =
          IF genOptions.emitDefinitionsOnly THEN clientFile
          ELSE [saved |-> TRUE, imports |-> clientImports, methods |-> genAllMethods]
    /\ UNCHANGED <<options, sessionVars, batchVars, walkVars, funVars, cliVars, genOptions, resolved,
                   genAt, genFrames, allDefinitions, clientImports, portImports,
                   genAllMethods, genServicePorts, serviceFiles>>

\* the loop opens the next document after generate has returned
OpenDocAfterGenerate ==
    /\ pc = "open"
    /\ docIdx <= MaxDocs
    /\ root.resolved => GenerateDone
    /\ FreshSession
    /\ pc' = "walk"
    /\ resolved' = << >>
    /\ genAt' = NoCursor
    /\ genFrames' = << >>
    /\ allDefinitions' = << >>
    /\ clientImports' = << >>
    /\ portImports' = << >>
    /\ genAllMethods' = << >>
    /\ genServicePorts' = << >>
    /\ serviceFiles' = << >>
    /\ clientFile' = NoFile
    /\ UNCHANGED <<options, batchVars, funVars, cliVars, genOptions>>

BatchEndAfterGenerate ==
    /\ root.resolved => GenerateDone
    /\ BatchEnd

\* the documents of the runs in which generate is followed
GenMessages ==
    { MsgId("TreeIn"), MsgId("PersonIn"), MsgId("AddressIn"), MsgId("pingIn"), MsgId("Sum") }

\* end of the port cycle of a port without a method
EndEmptyPort ==
    /\ pc = "walk"
    /\ CurrentEntries = {}
    /\ portMethods = << >>
    /\ Len(allPorts) < MaxPorts
    /\ servicePorts' = Append(servicePorts, ServicePort)
    /\ allPorts' = Append(allPorts, ServicePort)
    /\ UNCHANGED <<options, otherVars, sessionVars, batchVars, pc, walked, portMethods,
                   allMethods, services, root>>

GenInit ==
    /\ options = [modelNamePreffix |-> "", modelNameSuffix |-> "", maxStack |-> DefaultMaxStack]
    /\ genOptions \in GenOptionChoices
    /\ resolved = << >>
    /\ genAt = NoCursor
    /\ genFrames = << >>
    /\ allDefinitions = << >>
    /\ NoFiles
    /\ FunIdle
    /\ CliIdle
    /\ ParserInit

\* the steps of the parser that the documents of GenMessages can take, and
\* the steps of generate
GenNext ==
    \/ OpenDocAfterGenerate
    \/ \E role \in Roles, mi \in GenMessages : WalkRole(role, mi)
    \/ ParseDocKey
    \/ ParsePrimitive
    \/ ParseCached
    \/ ParseRecurse
    \/ ParseReturnToParent
    \/ ParseReturnToWalker
    \/ EndMethod
    \/ EndPort
    \/ EndEmptyPort
    \/ EndService
    \/ FinishWalk
    \/ GenStart
    \/ GenRoleSkip
    \/ GenRoleDefinition
    \/ GenPrimitive
    \/ GenReference
    \/ GenReferenceRecurse
    \/ GenReturn
    \/ GenEndMethod
    \/ GenEndPort
    \/ GenEndService
    \/ GenFinish
    \/ BatchEndAfterGenerate

GenSpec == GenInit /\ [][GenNext]_vars

\* generateDefinitionFile is synchronous code: once called it runs on
GenDefinitionFileStep == GenPrimitive \/ GenReference \/ GenReferenceRecurse \/ GenReturn

GenLiveSpec == GenSpec /\ WF_vars(GenDefinitionFileStep)

(***************************************************************************)
(* Functions applied on their own: getType on a type token, and the options *)
(* parseWsdl creates the name registry with.                               *)
(***************************************************************************)
Prefixes == {"", "xs:", "tns:", "a:b:"}

LocalNames ==
    {"int", "integer", "short", "long", "double", "float", "decimal", "bool", "boolean",
     "dateTime", "date", "anyType", "INT", "Int", "unknownThing", "constructor",
     "toString", "__proto__", ""}

CallerMaxima == {0, 1, 2, 64, 100}

Arguments ==
    { [fn |-> "getType", token |-> p \o n, supplied |-> FALSE, max |-> 0] :
        p \in Prefixes, n \in LocalNames }
    \cup { [fn |-> "parseWsdl", token |-> "", supplied |-> TRUE, max |-> n] :
             n \in CallerMaxima }
    \cup { [fn |-> "parseWsdl", token |-> "", supplied |-> FALSE, max |-> 0] }

\* the options override of the command line: the maximum is passed on when it
\* was given, zero included
OptionsOverride(conf) ==
    [supplied |-> conf.supplied /\ (conf.max # 0 \/ conf.max = 0), max |-> conf.max]

\* mergedOptions = { ...defaultOptions, ...options }
MergedOptions(opts) ==
    [maxRecursiveDefinitionName |-> IF opts.supplied THEN opts.max ELSE DefaultMaxStack]

\* new ParsedWsdl({ maxStack: options.maxRecursiveDefinitionName }): the value
\* of the caller's options, not of mergedOptions; undefined when not supplied
RegistryOptions(opts) ==
    [defined |-> opts.supplied, maxStack |-> IF opts.supplied THEN opts.max ELSE 0]

ApplyGetType ==
    /\ argument.fn = "getType"
    /\ ~result.done
    /\ result' = [done |-> TRUE, type |-> getType(argument.token), defined |-> FALSE,
                  maxStack |-> 0, merged |-> 0]
    /\ UNCHANGED <<options, definitions, visitedDefs, frames, err, pc, roleLog, entered,
                   origin, batchVars, walkVars, genVars, argument, cliVars>>

ApplyParseWsdlOptions ==
    /\ argument.fn = "parseWsdl"
    /\ ~result.done
    /\ result' = [done |-> TRUE, type |-> "",
                  defined |-> RegistryOptions(OptionsOverride(argument)).defined,
                  maxStack |-> RegistryOptions(OptionsOverride(argument)).maxStack,
                  merged |-> MergedOptions(OptionsOverride(argument)).maxRecursiveDefinitionName]
    /\ UNCHANGED <<options, definitions, visitedDefs, frames, err, pc, roleLog, entered,
                   origin, batchVars, walkVars, genVars, argument, cliVars>>

FunInit ==
    /\ options = [modelNamePreffix |-> "", modelNameSuffix |-> "", maxStack |-> DefaultMaxStack]
    /\ GenIdle
    /\ CliIdle
    /\ ParserInit
    /\ argument \in Arguments
    /\ result = NoResult

FunNext ==
    \/ ApplyGetType
    \/ ApplyParseWsdlOptions

FunSpec == FunInit /\ [][FunNext]_vars

(***************************************************************************)
(* The main function of the command line client.  parseAndGenerate is      *)
(* followed by its outcome only: it resolves, or it rejects, or an         *)
(* exception of the callback of open_wsdl ends the process.                *)
(***************************************************************************)
MaxPatterns == 3

RECURSIVE SeqsUpTo(_, _)
SeqsUpTo(S, n) ==
    IF n = 0 THEN { << >> }
    ELSE SeqsUpTo(S, n - 1) \cup { Append(q, x) : q \in SeqsUpTo(S, n - 1), x \in S }

\* /^https?:\/\//i.test(pattern)
IsUrl(pattern) == pattern = "url"

urlPatterns == SelectSeq(argv.patterns, IsUrl)
IsLocal(pattern) == ~IsUrl(pattern)
localPatterns == SelectSeq(argv.patterns, IsLocal)

Exit(code) ==
    /\ pc' = "exit"
    /\ exitCode' = code

CliParked ==
    UNCHANGED <<options, sessionVars, walkVars, genVars, funVars>>

\* conf._ is empty: "No WSDL files found"
CliNoInput ==
    /\ pc = "cli"
    /\ argv.patterns = << >>
    /\ Exit(1)
    /\ CliParked
    /\ UNCHANGED <<docIdx, errorsCount, cliVars>>

\* no -o: "You forgot to pass the path to the output directory"
CliNoOutDir ==
    /\ pc = "cli"
    /\ argv.patterns # << >>
    /\ ~argv.o
    /\ Exit(1)
    /\ CliParked
    /\ UNCHANGED <<docIdx, errorsCount, cliVars>>

\* the patterns are split into urlPatterns and localPatterns
CliSplit ==
    /\ pc = "cli"
    /\ argv.patterns # << >>
    /\ argv.o
    /\ pc' = "urls"
    /\ docIdx' = 1
    /\ errorsCount' = 0
    /\ CliParked
    /\ UNCHANGED <<exitCode, cliVars>>

CliEntry(kind, downloaded, generated) ==
    [kind |-> kind, downloaded |-> downloaded, generated |-> generated]

\* axios.get rejects: the inner catch counts the error
UrlDownloadFails ==
    /\ pc = "urls"
    /\ docIdx <= Len(urlPatterns)
    /\ errorsCount' = errorsCount + 1
    /\ docIdx' = docIdx + 1
    /\ cliLog' = Append(cliLog, CliEntry("url", FALSE, FALSE))
    /\ CliParked
    /\ UNCHANGED <<pc, exitCode, argv, localMatches>>

\* the document is downloaded; parseAndGenerate resolves or rejects
UrlGenerate(resolves) ==
    /\ pc = "urls"
    /\ docIdx <= Len(urlPatterns)
    /\ errorsCount' = IF resolves THEN errorsCount ELSE errorsCount + 1
    /\ docIdx' = docIdx + 1
    /\ cliLog' = Append(cliLog, CliEntry("url", TRUE, resolves))
    /\ CliParked
    /\ UNCHANGED <<pc, exitCode, argv, localMatches>>

\* glob(localPatterns) matches nothing: "No local WSDL files found"
GlobNoMatch ==
    /\ pc = "urls"
    /\ docIdx > Len(urlPatterns)
    /\ localMatches' = 0
    /\ Exit(1)
    /\ CliParked
    /\ UNCHANGED <<docIdx, errorsCount, argv, cliLog>>

\* glob(localPatterns) matches n files (a pattern of the model matches at most one)
GlobMatches(n) ==
    /\ pc = "urls"
    /\ docIdx > Len(urlPatterns)
    /\ localMatches' = n
    /\ pc' = "locals"
    /\ docIdx' = 1
    /\ CliParked
    /\ UNCHANGED <<exitCode, errorsCount, argv, cliLog>>

\* parseAndGenerate of a local file resolves or rejects
LocalGenerate(resolves) ==
    /\ pc = "locals"
    /\ docIdx <= localMatches
    /\ errorsCount' = IF resolves THEN errorsCount ELSE errorsCount + 1
    /\ docIdx' = docIdx + 1
    /\ cliLog' = Append(cliLog, CliEntry("local", TRUE, resolves))
    /\ CliParked
    /\ UNCHANGED <<pc, exitCode, argv, localMatches>>

\* an exception leaves the callback of open_wsdl inside parseAndGenerate and
\* no handler sees it: the process ends
GenerateUncaught ==
    /\ \/ pc = "urls" /\ docIdx <= Len(urlPatterns)
       \/ pc = "locals" /\ docIdx <= localMatches
    /\ cliLog' = Append(cliLog, CliEntry(IF pc = "urls" THEN "url" ELSE "local", TRUE, FALSE))
    /\ Exit(1)
    /\ CliParked
    /\ UNCHANGED <<docIdx, errorsCount, argv, localMatches>>

\* after the last local file: `if (errorsCount) process.exit(1)`, else the
\* function returns and the process ends with status 0
CliEnd ==
    /\ pc = "locals"
    /\ docIdx > localMatches
    /\ Exit(IF errorsCount > 0 THEN 1 ELSE 0)
    /\ CliParked
    /\ UNCHANGED <<docIdx, errorsCount, cliVars>>

CliInit ==
    /\ options = [modelNamePreffix |-> "", modelNameSuffix |-> "", maxStack |-> DefaultMaxStack]
    /\ GenIdle
    /\ FunIdle
    /\ argv \in [patterns : SeqsUpTo({"url", "local"}, MaxPatterns), o : BOOLEAN]
    /\ localMatches = 0
    /\ cliLog = << >>
    /\ definitions = << >>
    /\ visitedDefs = << >>
    /\ frames = << >>
    /\ err = NoError
    /\ pc = "cli"
    /\ roleLog = << >>
    /\ entered = << >>
    /\ origin = NoOrigin
    /\ docIdx = 1
    /\ errorsCount = 0
    /\ exitCode = -1
    /\ walked = 0
    /\ portMethods = << >>
    /\ allMethods = << >>
    /\ servicePorts = << >>
    /\ allPorts = << >>
    /\ services = << >>
    /\ root = NoRoot

CliNext ==
    \/ CliNoInput
    \/ CliNoOutDir
    \/ CliSplit
    \/ UrlDownloadFails
    \/ \E resolves \in BOOLEAN : UrlGenerate(resolves)
    \/ GlobNoMatch
    \/ \E n \in 1..Len(localPatterns) : GlobMatches(n)
    \/ \E resolves \in BOOLEAN : LocalGenerate(resolves)
    \/ GenerateUncaught
    \/ CliEnd

CliSpec == CliInit /\ [][CliNext]_vars

TypeOK ==
    /\ options \in OptionChoices
    /\ pc \in {"open", "walk", "parse", "throw", "generate", "exit"}
    /\ docIdx \in 1..(MaxDocs + 1)
    /\ errorsCount \in 0..MaxDocs
    /\ exitCode \in {-1, 0, 1}
    /\ Len(roleLog) <= MaxCalls

(***************************************************************************)
(* Properties.                                                             *)
(***************************************************************************)
DefIds == 1..Len(definitions)
NoAffix == options.modelNamePreffix = "" /\ options.modelNameSuffix = ""

\* C1: after any sequence of resolve calls of one session, under any
\* configured prefix and suffix, no two Definitions of the session's
\* collection have the same final name.
C1_UniqueFinalNames ==
    \A i, j \in DefIds : i # j => definitions[i].name # definitions[j].name

\* the same without a configured prefix or suffix
UniqueFinalNamesWithoutAffix == NoAffix => C1_UniqueFinalNames

\* the entries of a raw value that become properties, in order: property k of
\* the Definition of a mapping comes from entry k of this sequence
PropEntries(parts) ==
    IF IsQuirk(parts) THEN << >>
    ELSE SelectSeq(EntriesOf(parts), LAMBDA e : ~IsDocKey(e.key))

\* the Definitions created for a raw value
DefsOfParts(parts) ==
    { visitedDefs[i].definition : i \in { j \in 1..Len(visitedDefs) : visitedDefs[j].parts = parts } }

IsNode(v) == v.t = "node"

\* the properties of the Definition of frame fi that exist by now
PropsOfFrame(fi) == 1..Len(definitions[frames[fi].def].properties)

ClosesOn(fi, gi, k) ==
    LET p == definitions[frames[fi].def].properties[k]
    IN  /\ p.kind = "REFERENCE"
        /\ p.ref = frames[gi].def

\* C2: when a raw structure contains itself, directly or through a chain, the
\* REFERENCE property that closes the cycle refers to the Definition created
\* for the ancestor, and no second Definition is created for that raw node.
C2_CycleClosesOnAncestor ==
    \A fi \in 1..Len(frames) : \A gi \in 1..fi :
        IsNode(frames[fi].parts) =>
            \A k \in PropsOfFrame(fi) :
                PropEntries(frames[fi].parts)[k].val = frames[gi].parts =>
                    /\ ClosesOn(fi, gi, k)
                    /\ Cardinality(DefsOfParts(frames[gi].parts)) = 1

\* what holds of a cycle while its raw nodes have been resolved once
CycleClosesOnAncestorOnFirstVisit ==
    \A fi \in 1..Len(frames) : \A gi \in 1..fi :
        (IsNode(frames[fi].parts) /\ Cardinality(DefsOfParts(frames[gi].parts)) = 1) =>
            \A k \in PropsOfFrame(fi) :
                PropEntries(frames[fi].parts)[k].val = frames[gi].parts => ClosesOn(fi, gi, k)

\* no raw mapping node is entered twice in the current top-level call
NoReentry ==
    \A i, j \in 1..Len(entered) :
        (i # j /\ IsNode(entered[i])) => entered[i] # entered[j]

\* a top-level call of parseDefinition is running (it iterates or unwinds)
InCall == pc = "parse" \/ (pc = "throw" /\ frames # << >>)

\* the length of the longest entry list of RawNodes
MaxEntries ==
    CHOOSE m \in 0..16 :
        /\ \A n \in NodeIds : Len(RawNodes[n]) <= m
        /\ \E n \in NodeIds : Len(RawNodes[n]) = m

Unvisited == { n \in NodeIds : DefsOfParts(NodeV(n)) = {} }

RECURSIVE RemainingWork(_)
RemainingWork(fs) ==
    IF fs = << >> THEN 0
    ELSE (Len(EntriesOf(Head(fs).parts)) + 3 - Head(fs).i) + RemainingWork(Tail(fs))

\* what a running call still has to do at most: the raw nodes not yet
\* visited, each with all its entries, and the rest of the entries of the
\* activations; an unwinding call has its activations to leave
Measure ==
    IF pc = "parse"
    THEN Cardinality(Unvisited) * (MaxEntries + 3) + RemainingWork(frames)
    ELSE IF pc = "throw" THEN Len(frames) ELSE 0

\* C3: a top-level resolve call terminates on every raw graph, cyclic ones
\* included (every step of a running call lowers Measure, a natural number),
\* and during it the resolver is entered at most once for each raw mapping node.
C3_TerminatesWithoutReentry ==
    /\ [] NoReentry
    /\ [] (Measure >= 0)
    /\ [][InCall => Measure' < Measure]_vars

\* a top-level call on the chain Ping -> Pong -> Ping has returned
C3_Witness ==
    /\ pc = "walk"
    /\ Len(entered) = 2
    /\ entered[1] = NodeV(2)
    /\ entered[2] = NodeV(3)
    /\ roleLog[Len(roleLog)].def > 0

\* the property of Definition d at position k, with the entry it comes from
PropsOfDef(d) == 1..Len(definitions[d].properties)
PartsOfDef(d) == visitedDefs[d].parts
ValueOfProp(d, k) == PropEntries(PartsOfDef(d))[k].val

\* C4: when two properties, of the same or of different Definitions, have the
\* identity-equal raw sub-structure as value, exactly one Definition is
\* created for the sub-structure and both are REFERENCE properties to it.
C4_SharedSubStructure ==
    \A d1, d2 \in DefIds :
        (IsNode(PartsOfDef(d1)) /\ IsNode(PartsOfDef(d2))) =>
            \A k1 \in PropsOfDef(d1), k2 \in PropsOfDef(d2) :
                (IsNode(ValueOfProp(d1, k1)) /\ ValueOfProp(d1, k1) = ValueOfProp(d2, k2)) =>
                    /\ definitions[d1].properties[k1].kind = "REFERENCE"
                    /\ definitions[d2].properties[k2].kind = "REFERENCE"
                    /\ definitions[d1].properties[k1].ref = definitions[d2].properties[k2].ref
                    /\ DefsOfParts(ValueOfProp(d1, k1)) = {definitions[d1].properties[k1].ref}

\* C5: across a session at most one Definition is created per raw node
\* identity, whatever path reaches the node (nested property value, top-level
\* parts of a message role).
C5_OneDefinitionPerNode ==
    \A i, j \in 1..Len(visitedDefs) :
        (i # j /\ IsNode(visitedDefs[i].parts)) => visitedDefs[i].parts # visitedDefs[j].parts

Resolved(a) == roleLog[a].def > 0

\* C6: two method roles whose messages declare the same element type name
\* hold the same Definition, and the resolver has run once for them.
C6_SameTypeNameSameDefinition ==
    \A a, b \in 1..Len(roleLog) :
        (a < b /\ Resolved(a) /\ Resolved(b) /\ roleLog[a].name = roleLog[b].name) =>
            /\ roleLog[a].def = roleLog[b].def
            /\ roleLog[b].reused

DefaultPolicy == NoAffix /\ options.maxStack = DefaultMaxStack

ProposesAddress(k) == PascalCase(definitions[k].sourceName) = "Address"

\* the rank of Definition k among the Definitions proposed as Address
AddressRank(k) == Cardinality({ i \in 1..k : ProposesAddress(i) })

Thrown == pc = "throw" /\ frames = << >>

\* C8: when the name reservation fails d levels deep, the error the top-level
\* caller receives identifies the full ancestor path and the exhausted base
\* name, and keeps the information of the original failure.
C8_ErrorKeepsPath ==
    (Thrown /\ origin.kind = "exhausted") =>
        \E k \in 1..Len(err.stack) : Includes(err.stack[k], origin.path)

\* what the top-level caller does receive: the message of the outermost call
ErrorNamesOutermostCall ==
    (Thrown /\ origin.kind = "exhausted" /\ origin.depth > 0) =>
        /\ err.stack = <<err.message>>
        /\ ~Includes(err.message, origin.path)

\* C9: in a batch run a fatal resolution error of one document is reported to
\* the loop as that document's failure and counted, and the remaining
\* documents are still processed: the run ends only after the last document.
C9_BatchSurvivesFatalError ==
    (pc = "exit" /\ origin.kind = "exhausted") => (docIdx = MaxDocs + 1 /\ errorsCount > 0)

TopLevelParts == Messages[roleLog[Len(roleLog)].msg].parts

\* C10: resolution of a mapping is total apart from name-collision
\* exhaustion: whatever the shape of the property values, the call returns.
C10_TotalOnMappings ==
    (pc = "throw" /\ IsNode(TopLevelParts)) => origin.kind = "exhausted"

\* the method has no message for the role of entry a, or the message has
\* neither element nor parts
AbsentMessage(a) ==
    \/ roleLog[a].msg = 0
    \/ /\ ~Messages[roleLog[a].msg].hasElement
       /\ ~Truthy(Messages[roleLog[a].msg].parts)

\* C11: for each of the five roles, when the method has no such message or
\* the message has neither element nor parts, the Definition the Method holds
\* for the role is null: the walker creates no empty Definition for it.
C11_AbsentRoleIsNull ==
    \A a \in 1..Len(roleLog) : AbsentMessage(a) => ~Resolved(a)

\* the same for the roles other than the output body
AbsentRoleIsNullExceptOutput ==
    \A a \in 1..Len(roleLog) :
        (AbsentMessage(a) /\ roleLog[a].role # "output") => roleLog[a].def = 0

\* the walker is in, or has left, the method Add of the contract Calc: input
\* parts {a: "xs:int", b: "xs:int"}, output parts the bare descriptor "xs:int"
CalcWalk ==
    /\ Len(roleLog) = 2
    /\ roleLog[1].role = "input" /\ roleLog[1].msg = MsgId("AddIn")
    /\ roleLog[2].role = "output" /\ roleLog[2].msg = MsgId("Bare")

NumberProperty(p, name) ==
    p.kind = "PRIMITIVE" /\ p.type = "number" /\ p.name = name

\* C12: walking the contract Calc / CalcPort / Add completes without error and
\* yields one Service, one Port and one Method; paramDefinition has exactly
\* the two Number properties a and b, returnDefinition is a Definition with
\* exactly one Number PRIMITIVE property.
C12_CalcContract ==
    CalcWalk =>
        /\ pc # "throw"
        /\ root.resolved =>
              /\ Len(root.services) = 1
              /\ Len(root.ports) = 1
              /\ Len(root.ports[1].methods) = 1
              /\ LET m == root.ports[1].methods[1]
                 IN  /\ m.paramDefinition \in DefIds
                     /\ m.returnDefinition \in DefIds
                     /\ Len(definitions[m.paramDefinition].properties) = 2
                     /\ NumberProperty(definitions[m.paramDefinition].properties[1], "a")
                     /\ NumberProperty(definitions[m.paramDefinition].properties[2], "b")
                     /\ Len(definitions[m.returnDefinition].properties) = 1
                     /\ definitions[m.returnDefinition].properties[1].kind = "PRIMITIVE"
                     /\ definitions[m.returnDefinition].properties[1].type = "number"

\* what the walk of Calc does yield: the Definition of the input, then the
\* TypeError of the descriptor without a name part
CalcInputResolved ==
    (CalcWalk /\ pc = "throw") =>
        /\ origin.kind = "bareDescriptor"
        /\ Len(definitions[roleLog[1].def].properties) = 2
        /\ NumberProperty(definitions[roleLog[1].def].properties[1], "a")
        /\ NumberProperty(definitions[roleLog[1].def].properties[2], "b")

\* C15: in every Definition the property names are pairwise distinct, as the
\* resolver produces them (array-marked keys with the marker stripped).
C15_UniquePropertyNames ==
    \A d \in DefIds : \A k1, k2 \in PropsOfDef(d) :
        k1 # k2 => definitions[d].properties[k1].name # definitions[d].properties[k2].name

\* the same for mappings without a key present both with and without marker
UniquePropertyNamesOfDistinctKeys ==
    \A d \in DefIds :
        (\A e1, e2 \in 1..Len(EntriesOf(PartsOfDef(d))) :
            e1 # e2 => PublicName(EntriesOf(PartsOfDef(d))[e1].key)
                        # PublicName(EntriesOf(PartsOfDef(d))[e2].key))
        => \A k1, k2 \in PropsOfDef(d) :
              k1 # k2 => definitions[d].properties[k1].name # definitions[d].properties[k2].name

\* the methods of a sequence of ports, in order
RECURSIVE MethodsOfPorts(_)
MethodsOfPorts(ports) ==
    IF ports = << >> THEN << >> ELSE Head(ports).methods \o MethodsOfPorts(Tail(ports))

\* C17: the session root the walker returns carries a flat list of all
\* methods, holding every Method of every Port exactly once; each Method is
\* held by exactly one Port.
C17_RootCarriesAllMethods ==
    (root.resolved /\ MethodsOfPorts(root.ports) # << >>) =>
        /\ "methods" \in DOMAIN root
        /\ root.methods = MethodsOfPorts(root.ports)
        /\ \A i, j \in 1..Len(MethodsOfPorts(root.ports)) :
              i # j => MethodsOfPorts(root.ports)[i].name # MethodsOfPorts(root.ports)[j].name

\* the list the walker builds, and drops when it returns
LocalAllMethodsIsFlat ==
    (root.resolved /\ MethodsOfPorts(root.ports) # << >>) =>
        /\ allMethods = MethodsOfPorts(root.ports)
        /\ "methods" \notin DOMAIN root

\* no exception was raised in the session and no activation works on d
Complete(d) == origin = NoOrigin /\ \A fi \in 1..Len(frames) : frames[fi].def # d

ArrayPropertyOfKind(t) ==
    \E d \in DefIds :
        /\ IsNode(PartsOfDef(d))
        /\ Complete(d)
        /\ \E k \in PropsOfDef(d) :
              /\ IsArrayKey(PropEntries(PartsOfDef(d))[k].key)
              /\ ValueOfProp(d, k).t = t

NullParts(v) == v.t \in {"null", "undef"}

\* C20: resolve called with absent/null raw parts returns, without error, a
\* Definition that has zero properties and is registered in the session's
\* Definition collection under the name reserved for it.
C20_EmptyDefinitionForAbsentParts ==
    /\ \A i \in 1..Len(visitedDefs) :
          NullParts(visitedDefs[i].parts) =>
              /\ visitedDefs[i].definition \in DefIds
              /\ definitions[visitedDefs[i].definition].properties = << >>
              /\ definitions[visitedDefs[i].definition].name = visitedDefs[i].name
              /\ definitions[visitedDefs[i].definition].name =
                    options.modelNamePreffix
                        \o PascalCase(definitions[visitedDefs[i].definition].sourceName)
                        \o options.modelNameSuffix
    /\ \A a \in 1..Len(roleLog) :
          (roleLog[a].def # 0 /\ NullParts(Messages[roleLog[a].msg].parts)) =>
              /\ (a = Len(roleLog) => pc # "throw")
              /\ (pc = "walk" => roleLog[a].def \in DefIds)

\* a top-level call with absent parts has returned its Definition
C20_Witness ==
    /\ pc = "walk"
    /\ \E a \in 1..Len(roleLog) :
          /\ Resolved(a)
          /\ ~roleLog[a].reused
          /\ NullParts(Messages[roleLog[a].msg].parts)
          /\ definitions[roleLog[a].def].properties = << >>

Applied(fn) == result.done /\ argument.fn = fn

IntTokens == { p \o n : p \in Prefixes, n \in {"int", "INT", "Int"} }

\* C13: getType returns number for "xs:int", "int" and "tns:INT": the result
\* for an integer token depends neither on its namespace prefix nor on its
\* letter case.
C13_IntegerTokensAreNumber ==
    (Applied("getType") /\ argument.token \in IntTokens) => result.type = "number"

\* the same for the lower-case token under any prefix
LowerCaseIntIsNumber ==
    (Applied("getType") /\ argument.token \in { p \o "int" : p \in Prefixes }) =>
        result.type = "number"

TableKeys ==
    {"int", "integer", "short", "long", "double", "float", "decimal", "bool", "boolean",
     "dateTime", "date", "anyType"}

\* C14: getType is total with a string default: for every token whose part
\* after the last ":" is not one of the twelve table keys it returns string.
C14_StringDefault ==
    (Applied("getType") /\ SplitPop(argument.token, ":") \notin TableKeys) =>
        result.type = "string"

\* the same for tokens that do not name a member of Object.prototype
StringDefaultForOwnKeys ==
    (Applied("getType") /\ SplitPop(argument.token, ":") \notin TableKeys
                        /\ SplitPop(argument.token, ":") \notin ObjectPrototypeKeys) =>
        result.type = "string"

\* C18: when the caller supplies no maximum for name-collision retries the
\* name registry is created with the default ceiling 64; when the caller
\* supplies a value, that value is the ceiling.
C18_RegistryCeiling ==
    Applied("parseWsdl") =>
        /\ result.defined
        /\ result.maxStack = IF argument.supplied THEN argument.max ELSE DefaultMaxStack

\* a supplied maximum is the ceiling; the default is in mergedOptions only
SuppliedCeilingInEffect ==
    Applied("parseWsdl") =>
        /\ argument.supplied => (result.defined /\ result.maxStack = argument.max)
        /\ ~argument.supplied => (~result.defined /\ result.merged = DefaultMaxStack)

\* C16: the session root is read-only for the emission stage: after generate
\* returns, every Definition's name, its sequence of properties and every
\* property's name are what the resolver returned, for every
\* modelPropertyNaming setting.
C16_RootIsReadOnly ==
    GenerateDone => definitions = resolved

\* the same without a modelPropertyNaming setting, and for every setting the
\* Definitions keep their names, and their properties all but the name
RootIsReadOnlyButForNames ==
    (pc = "generate" \/ GenerateDone) =>
        /\ genOptions.modelPropertyNaming = "null" => definitions = resolved
        /\ Len(definitions) = Len(resolved)
        /\ \A d \in DefIds :
              /\ definitions[d].name = resolved[d].name
              /\ Len(definitions[d].properties) = Len(resolved[d].properties)
              /\ \A k \in PropsOfDef(d) :
                    [definitions[d].properties[k] EXCEPT !.name = ""]
                        = [resolved[d].properties[k] EXCEPT !.name = ""]

\* C21: in every call of parseDefinition the new Definition is in the
\* session's Definition collection and in the cache, keyed by its raw parts,
\* before any entry of the parts is visited: at every moment every raw node on
\* the recursion stack has a cached, registered Definition.
C21_StackIsRegistered ==
    \A fi \in 1..Len(frames) :
        /\ frames[fi].def \in DefIds
        /\ \E v \in 1..Len(visitedDefs) :
              /\ visitedDefs[v].parts = frames[fi].parts
              /\ visitedDefs[v].definition = frames[fi].def
              /\ visitedDefs[v].name = definitions[frames[fi].def].name

\* a nested call has just registered the Definition of a mapping with entries
\* and has visited none of them
C21_Witness ==
    /\ pc = "parse"
    /\ Len(frames) >= 2
    /\ Top.i = 1
    /\ Len(EntriesOf(Top.parts)) >= 1
    /\ definitions[Top.def].properties = << >>
    /\ findReferenceDefiniton(visitedDefs, Top.parts) # 0

\* the raw nodes a value holds, at any depth
RECURSIVE NodesBelow(_, _)
NodesBelow(v, seen) ==
    IF v.t # "node" \/ v.id \in seen THEN seen
    ELSE LET es == EntriesOf(v)
             F[k \in 0..Len(es)] ==
                 IF k = 0 THEN seen \cup {v.id} ELSE NodesBelow(es[k].val, F[k - 1])
         IN  F[Len(es)]

\* the parts of a message are, or hold, a mapping with the decoder quirk
HoldsQuirk(v) == \E n \in NodesBelow(v, {}) : IsQuirk(NodeV(n))

\* C22: for a mapping that contains the spurious key "undefined" with an
\* absent value, parseDefinition does not fail: the enclosing Definition is
\* produced and registered, and it has no property for the spurious key.
C22_QuirkDoesNotFail ==
    /\ \A i \in 1..Len(visitedDefs) :
          IsQuirk(visitedDefs[i].parts) =>
              /\ visitedDefs[i].definition \in DefIds
              /\ definitions[visitedDefs[i].definition].name = visitedDefs[i].name
              /\ \A k \in 1..Len(definitions[visitedDefs[i].definition].properties) :
                    LET p == definitions[visitedDefs[i].definition].properties[k]
                    IN  p.name # "undefined" /\ p.sourceName # "undefined"
    /\ \A a \in 1..Len(roleLog) :
          (roleLog[a].def # 0 /\ HoldsQuirk(Messages[roleLog[a].msg].parts)) =>
              /\ (a = Len(roleLog) => pc # "throw")
              /\ (pc = "walk" => roleLog[a].def \in DefIds)

\* a top-level call on parts with the quirk key has returned its Definition
C22_Witness ==
    /\ pc = "walk"
    /\ \E a \in 1..Len(roleLog) :
          /\ roleLog[a].def \in DefIds
          /\ ~roleLog[a].reused
          /\ IsQuirk(Messages[roleLog[a].msg].parts)
          /\ visitedDefs[roleLog[a].def].parts = Messages[roleLog[a].msg].parts

\* C23: when a mapping contains the spurious key, none of its other entries
\* is processed: the Definition has zero properties and no documentation
\* entry beyond its name, and no call is made for a nested value of it.
C23_QuirkSkipsEveryEntry ==
    /\ \A i \in 1..Len(visitedDefs) :
          IsQuirk(visitedDefs[i].parts) =>
              /\ definitions[visitedDefs[i].definition].properties = << >>
              /\ definitions[visitedDefs[i].definition].docs
                    = << definitions[visitedDefs[i].definition].sourceName >>
    /\ \A fi \in 1..Len(frames) :
          IsQuirk(frames[fi].parts) =>
              /\ fi = Len(frames)
              /\ frames[fi].i > Len(EntriesOf(frames[fi].parts))

\* the call on a nested mapping with the quirk key, which has a string entry,
\* a nested mapping and a documentation key, has returned to its parent
C23_Witness ==
    /\ pc = "walk"
    /\ \E d \in DefIds : \E k \in 1..Len(definitions[d].properties) :
          LET p == definitions[d].properties[k]
          IN  /\ p.kind = "REFERENCE"
              /\ IsQuirk(visitedDefs[p.ref].parts)
              /\ \E e \in 1..Len(EntriesOf(visitedDefs[p.ref].parts)) :
                    EntriesOf(visitedDefs[p.ref].parts)[e].val.t = "node"
              /\ HasKey(visitedDefs[p.ref].parts, "targetNamespace")
              /\ definitions[p.ref].properties = << >>

\* every REFERENCE property points at a Definition of the session's collection
RefsAreMembers ==
    \A d \in DefIds : \A k \in 1..Len(definitions[d].properties) :
        definitions[d].properties[k].kind = "REFERENCE" =>
            /\ definitions[d].properties[k].ref \in DefIds
            /\ \E v \in 1..Len(visitedDefs) :
                  visitedDefs[v].definition = definitions[d].properties[k].ref

\* a step inside a session keeps every Definition of the collection, in place
CollectionGrows ==
    pc # "open" =>
        /\ Len(definitions') >= Len(definitions)
        /\ \A d \in DefIds :
              /\ definitions'[d].name = definitions[d].name
              /\ definitions'[d].sourceName = definitions[d].sourceName
              /\ Len(definitions'[d].properties) >= Len(definitions[d].properties)

\* C24: after any resolution run every REFERENCE property's ref is a member
\* of the session's Definition collection, and no Definition is removed from
\* the collection once added: it only grows during a session.
C24_RefsRegisteredAndCollectionGrows ==
    [](RefsAreMembers) /\ [][CollectionGrows]_vars

\* a run has ended with a REFERENCE to a Definition made by a nested call and
\* a REFERENCE to a Definition taken from the cache
C24_Witness ==
    /\ pc = "open"
    /\ root.resolved
    /\ \E d \in DefIds : \E k, l \in 1..Len(definitions[d].properties) :
          /\ k < l
          /\ definitions[d].properties[k].kind = "REFERENCE"
          /\ definitions[d].properties[l].kind = "REFERENCE"
          /\ definitions[d].properties[k].ref = definitions[d].properties[l].ref
          /\ definitions[d].properties[k].ref > d

\* the Definitions whose names the client interface writes in a method signature
SignatureRoles == {"paramDefinition", "returnDefinition", "inputHeaderDefinition",
                   "outputHeaderDefinition"}

ClientImports(d) ==
    \E k \in 1..Len(clientFile.imports) :
        /\ clientFile.imports[k].moduleSpecifier = "./definitions/" \o definitions[d].name
        /\ clientFile.imports[k].namedImport = definitions[d].name

\* C25: with emitDefinitionsOnly false, every Definition whose name appears in
\* a method signature of the client interface is imported by the client file,
\* also when its file was first generated as a nested REFERENCE of another
\* Definition before a method used it directly.
C25_ClientImportsSignatureTypes ==
    clientFile.saved =>
        \A i \in 1..Len(clientFile.methods) : \A r \in SignatureRoles :
            clientFile.methods[i][r] # 0 => ClientImports(clientFile.methods[i][r])

\* the same for the Definitions no property of another Definition refers to
ClientImportsUnreferencedSignatureTypes ==
    clientFile.saved =>
        \A i \in 1..Len(clientFile.methods) : \A r \in SignatureRoles :
            LET d == clientFile.methods[i][r]
            IN  d # 0 =>
                    \/ ClientImports(d)
                    \/ \E e \in DefIds \ {d} : \E k \in 1..Len(definitions[e].properties) :
                          /\ definitions[e].properties[k].kind = "REFERENCE"
                          /\ definitions[e].properties[k].ref = d

PortNames(ports) == [k \in 1..Len(ports) |-> ports[k].name]

\* C26: for a session with several services, the interface generated for each
\* service lists exactly the ports that belong to that service
\* (service.ports), and no port of another service.
C26_ServiceListsItsOwnPorts ==
    (GenerateDone /\ ~genOptions.emitDefinitionsOnly) =>
        /\ Len(serviceFiles) = Len(root.services)
        /\ \A k \in 1..Len(serviceFiles) :
              /\ serviceFiles[k].name = root.services[k].name
              /\ serviceFiles[k].properties = PortNames(root.services[k].ports)

\* what the interface of every service lists: the ports of the whole document
ServiceListsAllPorts ==
    (GenerateDone /\ ~genOptions.emitDefinitionsOnly) =>
        /\ Len(serviceFiles) = Len(root.services)
        /\ \A k \in 1..Len(serviceFiles) :
              /\ serviceFiles[k].name = root.services[k].name
              /\ serviceFiles[k].properties = PortNames(root.ports)

\* generateDefinitionFile was called at most once for each Definition
InvokedOnce ==
    \A i, j \in 1..Len(allDefinitions) : allDefinitions[i] = allDefinitions[j] => i = j

\* C27: generateDefinitionFile terminates on every finite Definition graph,
\* also when REFERENCE properties form cycles or self-references, and within
\* one run of generate it is invoked at most once per Definition.
C27_DefinitionFileTerminates ==
    /\ [](InvokedOnce)
    /\ (genFrames # << >>) ~> (genFrames = << >>)

\* generate has returned after it went through a Definition that refers to
\* itself, or through two Definitions that refer to each other
C27_Witness ==
    /\ GenerateDone
    /\ \E i, j \in 1..Len(allDefinitions) :
          LET d == allDefinitions[i]
              e == allDefinitions[j]
          IN  /\ \E k \in 1..Len(definitions[d].properties) :
                    definitions[d].properties[k].ref = e
              /\ \E k \in 1..Len(definitions[e].properties) :
                    definitions[e].properties[k].ref = d

SomeInputFailed ==
    \E i \in 1..Len(cliLog) : ~cliLog[i].downloaded \/ ~cliLog[i].generated

\* no input document was given, or none was there at all: no URL and no
\* file matched by a local pattern
NoInputAtAll ==
    \/ argv.patterns = << >>
    \/ urlPatterns = << >> /\ localMatches = 0

\* C28: a run of the command line client that was given an output directory
\* exits with failure status only if at least one input document failed to
\* download or generate, or no input document was given or matched at all;
\* a run whose inputs are all URLs, each downloaded and generated
\* successfully, does not exit with failure.
C28_FailureOnlyOnFailedInput ==
    (exitCode = 1 /\ argv.o) => (SomeInputFailed \/ NoInputAtAll)

\* the causes of a failure status: a failed input, no pattern, no output
\* directory, or no file matched by the local patterns, be there any or none
FailureCauses ==
    /\ exitCode = 1 =>
          \/ SomeInputFailed
          \/ argv.patterns = << >>
          \/ ~argv.o
          \/ localMatches = 0
    /\ exitCode = 0 =>
          /\ ~SomeInputFailed
          /\ argv.o
          /\ localMatches >= 1
          /\ Len(cliLog) = Len(urlPatterns) + localMatches
====
